---- MODULE Spec2Model ----
(***************************************************************************)
(* A model of assets/dl.py, the WordPress content image downloader:        *)
(* the post fetcher (get_all_posts), the extractor                         *)
(* (extract_images_from_content and its block / shortcode passes), the     *)
(* media resolver (get_media_url_by_id), the deduplicator (the tail of     *)
(* extract_all_content_images), the filename generator                     *)
(* (generate_filename) and the downloader (download_image,                 *)
(* download_all_images, run).                                              *)
(*                                                                         *)
(* Strings are sequences of characters.  A character is a one-character    *)
(* string, except for the scheme of a url with its colon ("https:",        *)
(* "http:", "data:"), which is one token, and for NonAsciiLetter, one      *)
(* letter outside ASCII.                                                   *)
(***************************************************************************)
EXTENDS Integers, Sequences, FiniteSets, TLC

VARIABLES
    \* WordPressContentImageDownloader fields
    used_filenames,     \* self.used_filenames
    downloaded_images,  \* self.downloaded_images
    disk,               \* the names of the files in self.images_folder
    \* generate_filename, as called on one instance
    name_url,           \* the url the calls of SpecSanitize are made with
    calls,              \* one record per call of generate_filename made so far
    \* extract_all_content_images, download_all_images, run
    entry,              \* the method called: "run" or "download_all_images"
    all_image_urls,     \* all_image_urls after the loop over the posts (line 248)
    image_urls,         \* the list download_all_images is called with
    pc,                 \* "start", "download", "done", "stopped", "aborted"
    idx,                \* how many descriptors the loop of line 350 has taken
    successful,         \* successful
    failed,             \* failed
    run_no,             \* 1 for the first process, 2 for the second, ...
    trace,              \* one record per call of download_image of this run
    last,               \* the last call of download_image with its response
    written1,           \* the positions whose file the first run created
    downloaded1,        \* downloaded_images at the end of the first run
    \* get_all_posts
    fetch_pc,           \* "loop" inside the while of line 38, "returned" after it
    page,               \* page
    posts,              \* posts
    requested,          \* the page numbers requested so far, in order
    responses,          \* what each request met, in order
    \* extract_images_from_content
    extract_pc,         \* "called" before the method runs, "returned" after it
    content,            \* the markup of content_html: its img tags, blocks, shortcodes
    media_answers,      \* what the media endpoint answers to the 1st, 2nd, ... request
    media_log,          \* the media ids requested, in order
    images              \* the list extract_images_from_content returns

nameVars == <<name_url, calls>>
fieldVars == <<used_filenames, downloaded_images, disk>>
downloadVars == <<entry, all_image_urls, image_urls, pc, idx, successful, failed,
                  run_no, trace, last, written1, downloaded1>>

fetchVars == <<fetch_pc, page, posts, requested, responses>>

extractVars == <<extract_pc, content, media_answers, media_log, images>>

vars == <<fieldVars, nameVars, downloadVars, fetchVars, extractVars>>

-----------------------------------------------------------------------------
(* Strings                                                                 *)

\* one letter outside ASCII, such as U+00E9: str.isalnum() is true of it
NonAsciiLetter == "U+00E9"

\* the ASCII letters and digits the strings of the model are written with
AsciiLetters == {"a", "b", "j", "p", "g", "i", "m", "e", "x"}
AsciiDigits == {"0", "1", "2", "3", "4", "5", "6", "7", "8", "9"}

\* str.isalnum() of one character
isalnum(c) == c \in AsciiLetters \cup AsciiDigits \cup {NonAsciiLetter}

\* str.isdigit() of one character (of the characters of the model)
isdigit_char(c) == c \in AsciiDigits

\* s.startswith(prefix)
startswith(s, prefix) ==
    /\ Len(s) >= Len(prefix)
    /\ SubSeq(s, 1, Len(prefix)) = prefix

\* the largest index of s holding a character of cs, 0 when there is none
LastIndexIn(s, cs) ==
    LET hits == {i \in 1..Len(s) : s[i] \in cs}
    IN  IF hits = {} THEN 0 ELSE CHOOSE i \in hits : \A k \in hits : k <= i

\* the smallest index of s holding a character of cs, Len(s)+1 when there is none
FirstIndexIn(s, cs) ==
    LET hits == {i \in 1..Len(s) : s[i] \in cs}
    IN  IF hits = {} THEN Len(s) + 1 ELSE CHOOSE i \in hits : \A k \in hits : i <= k

DigitChar == <<"1", "2", "3", "4", "5", "6", "7", "8", "9">>

\* str(n) of a positive integer, as the f-string formats counter
RECURSIVE DecStr(_)
DecStr(n) ==
    IF n < 10
    THEN (IF n = 0 THEN <<"0">> ELSE <<DigitChar[n]>>)
    ELSE DecStr(n \div 10) \o (IF n % 10 = 0 THEN <<"0">> ELSE <<DigitChar[n % 10]>>)

-----------------------------------------------------------------------------
(* urllib.parse.urlparse(url).path, os.path.basename, os.path.splitext     *)

SchemeTokens == {"https:", "http:", "data:"}

\* urlparse(url).path: the scheme is cut, then a netloc that follows "//" up to
\* the first of "/", "?", "#", and the path ends before the first "?" or "#"
urlparse_path(url) ==
    LET noScheme == IF url /= <<>> /\ Head(url) \in SchemeTokens THEN Tail(url) ELSE url
        rest == IF startswith(noScheme, <<"/", "/">>)
                THEN LET r == SubSeq(noScheme, 3, Len(noScheme))
                     IN  SubSeq(r, FirstIndexIn(r, {"/", "?", "#"}), Len(r))
                ELSE noScheme
    IN  SubSeq(rest, 1, FirstIndexIn(rest, {"?", "#"}) - 1)

\* os.path.basename(p): what follows the last "/"
basename(p) == SubSeq(p, LastIndexIn(p, {"/"}) + 1, Len(p))

\* os.path.splitext(p) of a name without "/": split at the last dot, unless only
\* dots come before it
splitext(p) ==
    LET dot == LastIndexIn(p, {"."})
    IN  IF dot > 0 /\ \E i \in 1..(dot - 1) : p[i] /= "."
        THEN [name |-> SubSeq(p, 1, dot - 1), ext |-> SubSeq(p, dot, Len(p))]
        ELSE [name |-> p, ext |-> <<>>]

-----------------------------------------------------------------------------
(* generate_filename                                                       *)

DefaultName == <<"i", "m", "a", "g", "e", ".", "j", "p", "g">>
JpgExt == <<".", "j", "p", "g">>

\* a sanitizer that keeps every character
sanitize_keeps_all(original_filename) == original_filename

\* line 285: keep c when c.isalnum() or c in '.-_'
sanitize(original_filename) ==
    SelectSeq(original_filename, LAMBDA c : isalnum(c) \/ c \in {".", "-", "_"})

\* lines 270-282: the base name of the url's path, the default name, the extension
original_name(url) ==
    LET base == basename(urlparse_path(url))
        cut == IF "?" \in {base[i] : i \in 1..Len(base)}
               THEN SubSeq(base, 1, FirstIndexIn(base, {"?"}) - 1)
               ELSE base
        named == IF cut = <<>> \/ cut = <<"/">> THEN DefaultName ELSE cut
    IN  IF "." \notin {named[i] : i \in 1..Len(named)} THEN named \o JpgExt ELSE named

\* f"{name}_{counter}{ext}"
suffixed(filename, counter) ==
    LET p == splitext(filename) IN p.name \o <<"_">> \o DecStr(counter) \o p.ext

\* a collision handler that never looks further than counter 1
unique_name_first_suffix(filename, used) ==
    IF filename \in used THEN suffixed(filename, 1) ELSE filename

\* lines 288-293: the first counter 1, 2, ... whose suffixed name is unused
unique_name(filename, used) ==
    IF filename \in used
    THEN LET free == {c \in 1..(Cardinality(used) + 1) : suffixed(filename, c) \notin used}
             counter == CHOOSE c \in free : \A d \in free : c <= d
         IN  suffixed(filename, counter)
    ELSE filename

\* generate_filename(image_info): the name returned and self.used_filenames after
generate_filename(image_info, used) ==
    LET filename == unique_name(sanitize(original_name(image_info.url)), used)
    IN  [filename |-> filename, used_filenames |-> used \cup {filename}]

-----------------------------------------------------------------------------
(* Calls of generate_filename on one instance                              *)

MaxCalls == 3
MaxRepeat == 2
MaxNameLen == 3

site_url == <<"https:", "/", "/", "s">>

UrlA1 == site_url \o <<"/", "x", "/", "a", ".", "j">>
UrlA2 == site_url \o <<"/", "a", ".", "j">>
UrlA3 == site_url \o <<"/", "a", "_", "1", ".", "j">>
UrlTilde == site_url \o <<"/", "~">>
UrlRoot == site_url \o <<"/">>
UrlDot == site_url \o <<"/", ".">>
UrlQuery == site_url \o <<"/", "a", ".", "j", "?", "x">>

NameSampleUrls == {UrlA1, UrlA2, UrlA3, UrlTilde, UrlRoot, UrlDot, UrlQuery}

NameAlphabet == {"a", "1", ".", "_", "-", "~", "/", "?", NonAsciiLetter}

Strings(alphabet, n) == UNION {[1..k -> alphabet] : k \in 0..n}

AllNameUrls == {site_url \o <<"/">> \o s : s \in Strings(NameAlphabet, MaxNameLen)}

NoCall == [pos |-> 0]

\* the variables of extract_images_from_content and of get_all_posts, for the
\* specifications that do not run them
IdleExtract ==
    /\ extract_pc = "idle"
    /\ content = <<>>
    /\ media_answers = <<>>
    /\ media_log = <<>>
    /\ images = <<>>

IdleFetch ==
    /\ fetch_pc = "idle"
    /\ page = 0
    /\ posts = <<>>
    /\ requested = <<>>
    /\ responses = <<>>

\* the variables of the downloader, for the specifications that do not run it
IdleDownload ==
    /\ entry = "none"
    /\ all_image_urls = <<>>
    /\ image_urls = <<>>
    /\ pc = "idle"
    /\ idx = 0
    /\ successful = 0
    /\ failed = 0
    /\ run_no = 0
    /\ trace = <<>>
    /\ last = NoCall
    /\ written1 = {}
    /\ downloaded1 = {}

InitNames ==
    /\ used_filenames = {}
    /\ downloaded_images = {}
    /\ disk = {}
    /\ calls = <<>>
    /\ IdleDownload
    /\ IdleFetch
    /\ IdleExtract

\* one call of generate_filename
GenerateFilenameCall(u) ==
    LET r == generate_filename([url |-> u], used_filenames)
    IN  /\ used_filenames' = r.used_filenames
        /\ calls' = Append(calls, [url |-> u,
                                   filename |-> r.filename,
                                   was_used |-> r.filename \in used_filenames,
                                   now_used |-> r.filename \in r.used_filenames])
        /\ UNCHANGED <<fetchVars, extractVars, downloaded_images, disk, name_url, downloadVars>>

InitFilename == InitNames /\ name_url = <<>>

NextFilename == \E u \in NameSampleUrls : Len(calls) < MaxCalls /\ GenerateFilenameCall(u)

SpecFilename == InitFilename /\ [][NextFilename]_vars

InitSanitize == InitNames /\ name_url \in AllNameUrls

NextSanitize == Len(calls) < MaxRepeat /\ GenerateFilenameCall(name_url)

SpecSanitize == InitSanitize /\ [][NextSanitize]_vars

-----------------------------------------------------------------------------
(* Claims about generate_filename                                          *)

CharsOf(s) == {s[i] : i \in 1..Len(s)}

DotCount(s) == Cardinality({i \in 1..Len(s) : s[i] = "."})

\* C2: no two calls of generate_filename on one instance return the same name, and
\* every returned name was absent from used_filenames just before its call and is
\* present just after it.
C2_FilenamesInjective ==
    /\ \A i, k \in 1..Len(calls) : i /= k => calls[i].filename /= calls[k].filename
    /\ \A i \in 1..Len(calls) : ~calls[i].was_used /\ calls[i].now_used
    /\ \A i \in 1..Len(calls) : calls[i].filename \in used_filenames

\* three urls with the sanitized names a.j, a.j and a_1.j: the second call takes
\* a_1.j, so the third, whose own name is a_1.j, collides with a generated name
C2_Witness ==
    /\ Len(calls) = 3
    /\ calls[1].url = UrlA1 /\ calls[2].url = UrlA2 /\ calls[3].url = UrlA3
    /\ calls[2].filename = <<"a", "_", "1", ".", "j">>
    /\ calls[3].filename = <<"a", "_", "1", "_", "1", ".", "j">>

PermittedAscii == AsciiLetters \cup AsciiDigits \cup {".", "_", "-"}

\* exactly one "." and it separates a non-empty stem from a non-empty extension
OneExtension(s) ==
    /\ DotCount(s) = 1
    /\ s[1] /= "."
    /\ s[Len(s)] /= "."

-----------------------------------------------------------------------------
(* extract_all_content_images, lines 250-262: the deduplication            *)

\* a deduplication that keeps every descriptor
unique_images_keeps_all(all) == all

\* a deduplication that keeps the last descriptor of each url instead of the first
unique_images_keeps_last(all) ==
    SelectSeq([i \in 1..Len(all) |->
                   IF \E k \in (i + 1)..Len(all) : all[k].url = all[i].url
                   THEN [url |-> <<>>, post_id |-> 0] ELSE all[i]],
              LAMBDA d : d.url /= <<>>)

\* the loop of lines 254-257, from descriptor i on
RECURSIVE dedupe_loop(_, _, _, _)
dedupe_loop(all, i, unique, seen_urls) ==
    IF i > Len(all) THEN unique
    ELSE IF all[i].url \notin seen_urls
         THEN dedupe_loop(all, i + 1, Append(unique, all[i]), seen_urls \cup {all[i].url})
         ELSE dedupe_loop(all, i + 1, unique, seen_urls)

\* lines 250-262: unique_images of all_image_urls
unique_images(all) == dedupe_loop(all, 1, <<>>, {})

-----------------------------------------------------------------------------
(* download_image                                                          *)

ImagePng == <<"i", "m", "a", "g", "e", "/", "p">>
ImageNoSlash == <<"i", "m", "a", "g", "e">>
TextHtml == <<"t", "e", "x", "t", "/", "h">>

\* the value of response.headers.get('content-type', ''): <<>> is the default of
\* an absent header
ContentTypes == {ImagePng, TextHtml, ImageNoSlash, <<>>}

\* what the network and the disk do to one download: the request raises (a
\* connection error, a timeout, a status raise_for_status refuses), or a response
\* arrives and the write of lines 330-333 cannot open the file, breaks after the
\* file was created, or completes
Responses ==
    {[kind |-> "request_error", content_type |-> <<>>, write |-> "none"]}
    \cup [kind : {"response"}, content_type : ContentTypes \ {ImagePng}, write : {"none"}]
    \cup [kind : {"response"}, content_type : {ImagePng},
          write : {"open_fails", "stream_breaks", "complete"}]

\* the names every folder holds
DotEntries == {<<".">>, <<".", ".">>}

\* an existence check that finds nothing
exists_never(filename, files) == FALSE

\* line 310: filepath.exists()
exists(filename, files) == filename \in files \/ filename \in DotEntries

\* lines 319-337 with the file written before the content type is looked at
fetch_writes_before_check(url, filename, files, downloaded, resp) ==
    IF resp.kind = "request_error"
    THEN [ret |-> FALSE, branch |-> "request_error", disk |-> files,
          downloaded_images |-> downloaded]
    ELSE IF ~startswith(resp.content_type, <<"i", "m", "a", "g", "e", "/">>)
    THEN [ret |-> FALSE, branch |-> "not_image", disk |-> files \cup {filename},
          downloaded_images |-> downloaded]
    ELSE [ret |-> TRUE, branch |-> "downloaded", disk |-> files \cup {filename},
          downloaded_images |-> downloaded \cup {url}]

\* lines 319-337 and the handler of lines 339-341: the request, the content type
\* check, the write
fetch(url, filename, files, downloaded, resp) ==
    IF resp.kind = "request_error"
    THEN [ret |-> FALSE, branch |-> "request_error", disk |-> files,
          downloaded_images |-> downloaded]
    ELSE IF ~startswith(resp.content_type, <<"i", "m", "a", "g", "e", "/">>)
    THEN [ret |-> FALSE, branch |-> "not_image", disk |-> files,
          downloaded_images |-> downloaded]
    ELSE IF resp.write = "open_fails"
    THEN [ret |-> FALSE, branch |-> "write_error", disk |-> files,
          downloaded_images |-> downloaded]
    ELSE IF resp.write = "stream_breaks"
    THEN [ret |-> FALSE, branch |-> "write_error", disk |-> files \cup {filename},
          downloaded_images |-> downloaded]
    ELSE [ret |-> TRUE, branch |-> "downloaded", disk |-> files \cup {filename},
          downloaded_images |-> downloaded \cup {url}]

\* download_image without the handler of lines 339-341: a failed request leaves
\* the method by its exception
download_image_no_handler(image_info, used, files, downloaded, resp) ==
    LET g == generate_filename(image_info, used)
        f == fetch(image_info.url, g.filename, files, downloaded, resp)
        skip == exists(g.filename, files) \/ image_info.url \in downloaded
    IN  [filename |-> g.filename, used_filenames |-> g.used_filenames,
         ret |-> IF skip THEN TRUE ELSE f.ret,
         branch |-> IF skip THEN "exists" ELSE f.branch,
         requested |-> ~skip,
         raised |-> ~skip /\ ~f.ret,
         disk |-> IF skip THEN files ELSE f.disk,
         downloaded_images |-> IF skip THEN downloaded ELSE f.downloaded_images]

\* download_image(image_info), lines 300-341
download_image(image_info, used, files, downloaded, resp) ==
    LET g == generate_filename(image_info, used)
        f == fetch(image_info.url, g.filename, files, downloaded, resp)
    IN  IF exists(g.filename, files)
        THEN [filename |-> g.filename, used_filenames |-> g.used_filenames,
              ret |-> TRUE, branch |-> "exists", requested |-> FALSE, raised |-> FALSE,
              disk |-> files, downloaded_images |-> downloaded]
        ELSE IF image_info.url \in downloaded
        THEN [filename |-> g.filename, used_filenames |-> g.used_filenames,
              ret |-> TRUE, branch |-> "url_downloaded", requested |-> FALSE,
              raised |-> FALSE, disk |-> files, downloaded_images |-> downloaded]
        ELSE [filename |-> g.filename, used_filenames |-> g.used_filenames,
              ret |-> f.ret, branch |-> f.branch, requested |-> TRUE, raised |-> FALSE,
              disk |-> f.disk, downloaded_images |-> f.downloaded_images]

-----------------------------------------------------------------------------
(* download_all_images and run                                             *)

MaxImages == 2
MaxRuns == 2

PostIds == {1, 2}

DownloadUrls == {UrlA1, UrlA2, UrlA3, UrlDot}

DownloadDescriptors == [url : DownloadUrls, post_id : {1}]

\* the names a destination folder may hold before the first run
OldFiles == {{}, {<<"a", ".", "j">>}}

InitDownload ==
    /\ used_filenames = {}
    /\ downloaded_images = {}
    /\ disk \in OldFiles
    /\ name_url = <<>>
    /\ calls = <<>>
    /\ entry \in {"run", "download_all_images"}
    /\ all_image_urls \in Strings(DownloadDescriptors, MaxImages)
    /\ image_urls = <<>>
    /\ pc = "start"
    /\ idx = 0
    /\ successful = 0
    /\ failed = 0
    /\ run_no = 1
    /\ trace = <<>>
    /\ last = NoCall
    /\ written1 = {}
    /\ downloaded1 = {}
    /\ IdleFetch
    /\ IdleExtract

\* run(), lines 376-384, from the end of the loop over the posts: the
\* deduplication, the return when nothing was found, the call of
\* download_all_images
Run ==
    /\ pc = "start"
    /\ entry = "run"
    /\ image_urls' = unique_images(all_image_urls)
    /\ pc' = IF image_urls' = <<>> THEN "stopped" ELSE "download"
    /\ UNCHANGED <<fetchVars, extractVars, fieldVars, nameVars, entry, all_image_urls, idx, successful, failed,
                   run_no, trace, last, written1, downloaded1>>

\* download_all_images(image_urls) called with a list of the caller's
CallDownloadAllImages ==
    /\ pc = "start"
    /\ entry = "download_all_images"
    /\ image_urls' = all_image_urls
    /\ pc' = "download"
    /\ UNCHANGED <<fetchVars, extractVars, fieldVars, nameVars, entry, all_image_urls, idx, successful, failed,
                   run_no, trace, last, written1, downloaded1>>

\* one turn of the loop of lines 350-359; an exception that left download_image
\* would leave the loop too, for the handler of run() (line 386)
DownloadNext ==
    /\ pc = "download"
    /\ idx < Len(image_urls)
    /\ \E resp \in Responses :
       \E r \in {download_image(image_urls[idx + 1], used_filenames, disk,
                                downloaded_images, resp)} :
       \E call \in {[pos |-> idx + 1, url |-> image_urls[idx + 1].url,
                      filename |-> r.filename, ret |-> r.ret,
                      requested |-> r.requested]} :
            /\ used_filenames' = r.used_filenames
            /\ disk' = r.disk
            /\ downloaded_images' = r.downloaded_images
            /\ trace' = Append(trace, call)
            /\ last' = call @@
                        [branch |-> r.branch,
                         content_type |-> IF r.requested /\ resp.kind = "response"
                                          THEN resp.content_type ELSE <<"-">>,
                         disk_before |-> disk, downloaded_before |-> downloaded_images]
            /\ written1' = IF run_no = 1 /\ r.disk /= disk
                           THEN written1 \cup {idx + 1} ELSE written1
            /\ IF r.raised
               THEN /\ pc' = "aborted"
                    /\ UNCHANGED <<idx, successful, failed>>
               ELSE /\ pc' = pc
                    /\ idx' = idx + 1
                    /\ successful' = IF r.ret THEN successful + 1 ELSE successful
                    /\ failed' = IF r.ret THEN failed ELSE failed + 1
    /\ UNCHANGED <<fetchVars, extractVars, nameVars, entry, all_image_urls, image_urls, run_no, downloaded1>>

\* the end of the loop: lines 361-364
DownloadComplete ==
    /\ pc = "download"
    /\ idx = Len(image_urls)
    /\ pc' = "done"
    /\ UNCHANGED <<fetchVars, extractVars, fieldVars, nameVars, entry, all_image_urls, image_urls, idx,
                   successful, failed, run_no, trace, last, written1, downloaded1>>

\* a later process: __init__ (lines 11-28) makes a fresh instance on the same
\* folder, and the same method is called with the same input
RunAgain ==
    /\ pc \in {"done", "stopped"}
    /\ run_no < MaxRuns
    /\ run_no' = run_no + 1
    /\ used_filenames' = {}
    /\ downloaded_images' = {}
    /\ pc' = "start"
    /\ idx' = 0
    /\ successful' = 0
    /\ failed' = 0
    /\ trace' = <<>>
    /\ last' = NoCall
    /\ image_urls' = <<>>
    /\ downloaded1' = IF run_no = 1 THEN downloaded_images ELSE downloaded1
    /\ UNCHANGED <<fetchVars, extractVars, disk, nameVars, entry, all_image_urls, written1>>

NextDownload ==
    \/ Run
    \/ CallDownloadAllImages
    \/ DownloadNext
    \/ DownloadComplete
    \/ RunAgain

SpecDownload == InitDownload /\ [][NextDownload]_vars

-----------------------------------------------------------------------------
(* Claims about download_image, download_all_images and run                *)

IsImageType(content_type) == startswith(content_type, <<"i", "m", "a", "g", "e", "/">>)

NoUrlTwice(list) == \A i, k \in 1..Len(list) : i /= k => list[i].url /= list[k].url

Written1Urls == {image_urls[i].url : i \in written1 \cap (1..Len(image_urls))}

C6_NotImageFailsWithoutFile ==
    (last.pos /= 0 /\ last.requested /\ last.content_type /= <<"-">>
        /\ ~IsImageType(last.content_type))
        => /\ ~last.ret
           /\ last.branch = "not_image"
           /\ disk = last.disk_before
           /\ downloaded_images = last.downloaded_before
           /\ trace[Len(trace)].ret = FALSE

\* a text/html response for a name that is not in the folder
C6_Witness ==
    /\ last.pos /= 0
    /\ last.requested
    /\ last.content_type = TextHtml
    /\ last.filename \notin disk
    /\ failed >= 1

\* C8: download_all_images attempts every descriptor once, in list order, whatever
\* the earlier downloads did, and at the end successful + failed is the length of
\* the list.
C8_EveryDescriptorAttempted ==
    /\ pc /= "aborted"
    /\ Len(trace) = idx
    /\ Len(trace) <= Len(image_urls)
    /\ \A k \in 1..Len(trace) : trace[k].pos = k /\ trace[k].url = image_urls[k].url
    /\ successful + failed = Len(trace)
    /\ successful = Cardinality({k \in 1..Len(trace) : trace[k].ret})
    /\ pc = "done" => Len(trace) = Len(image_urls)

\* a failed request for the first descriptor, then a download of the second
C8_Witness ==
    /\ pc = "done"
    /\ Len(image_urls) = 2
    /\ trace[1].requested /\ ~trace[1].ret
    /\ trace[2].requested /\ trace[2].ret
    /\ successful = 1 /\ failed = 1

-----------------------------------------------------------------------------
(* extract_all_content_images on its own                                   *)

MaxDescriptors == 3

Descriptors == [url : {UrlA1, UrlA2, UrlA3}, post_id : PostIds]

InitDedup ==
    /\ used_filenames = {}
    /\ downloaded_images = {}
    /\ disk = {}
    /\ name_url = <<>>
    /\ calls = <<>>
    /\ entry = "extract_all_content_images"
    /\ all_image_urls \in Strings(Descriptors, MaxDescriptors)
    /\ image_urls = <<>>
    /\ pc = "extracted"
    /\ idx = 0
    /\ successful = 0
    /\ failed = 0
    /\ run_no = 0
    /\ trace = <<>>
    /\ last = NoCall
    /\ written1 = {}
    /\ downloaded1 = {}
    /\ IdleFetch
    /\ IdleExtract

\* lines 250-262: the deduplication and the return of unique_images
Deduplicate ==
    /\ pc = "extracted"
    /\ image_urls' = unique_images(all_image_urls)
    /\ pc' = "returned"
    /\ UNCHANGED <<fetchVars, extractVars, fieldVars, nameVars, entry, all_image_urls, idx, successful, failed,
                   run_no, trace, last, written1, downloaded1>>

NextDedup == Deduplicate

SpecDedup == InitDedup /\ [][NextDedup]_vars

\* the index of the first descriptor of list that carries url u
FirstIndexOfUrl(list, u) ==
    CHOOSE i \in 1..Len(list) :
        list[i].url = u /\ \A k \in 1..(i - 1) : list[k].url /= u

\* C1: the deduplicated list holds one descriptor per distinct url of the input,
\* each the first descriptor of its url, in the order of those first occurrences.
C1_FirstOccurrencesInOrder ==
    pc = "returned" =>
        /\ Len(image_urls) = Cardinality({all_image_urls[i].url : i \in 1..Len(all_image_urls)})
        /\ {image_urls[j].url : j \in 1..Len(image_urls)}
               = {all_image_urls[i].url : i \in 1..Len(all_image_urls)}
        /\ \A j \in 1..Len(image_urls) :
               image_urls[j] = all_image_urls[FirstIndexOfUrl(all_image_urls, image_urls[j].url)]
        /\ \A j, k \in 1..Len(image_urls) :
               j < k => FirstIndexOfUrl(all_image_urls, image_urls[j].url)
                            < FirstIndexOfUrl(all_image_urls, image_urls[k].url)

\* three descriptors of two urls: the url of the first comes again, from another
\* post, after the second
C1_Witness ==
    /\ pc = "returned"
    /\ Len(all_image_urls) = 3
    /\ all_image_urls[1].url = all_image_urls[3].url
    /\ all_image_urls[1].post_id /= all_image_urls[3].post_id
    /\ all_image_urls[2].url /= all_image_urls[1].url
    /\ Len(image_urls) = 2

-----------------------------------------------------------------------------
(* get_all_posts                                                           *)

MaxPage == 3

\* the posts a page of the collection may hold: none, one or two, with ids that
\* tell the pages apart
PagePosts(p) == {<<>>, <<[id |-> 10 * p + 1]>>, <<[id |-> 10 * p + 1], [id |-> 10 * p + 2]>>}

\* the X-WP-TotalPages header of a response: <<>> when absent, <<n>> when n
TotalPagesHeaders == {<<>>} \cup {<<n>> : n \in 0..(MaxPage + 1)}

\* what a request for page p meets: it raises (a connection error, or a status
\* raise_for_status refuses), or a response with a list of posts and headers
PageResponses(p) ==
    {[kind |-> "request_error", posts |-> <<>>, total |-> <<>>]}
    \cup [kind : {"response"}, posts : PagePosts(p), total : TotalPagesHeaders]

\* line 59: int(response.headers.get('X-WP-TotalPages', 1))
total_pages(header) == IF header = <<>> THEN 1 ELSE header[1]

\* a test that lets the loop go one page past the advertised total
last_page_off_by_one(p, total) == p > total

\* line 60: page >= total_pages
last_page(p, total) == p >= total

InitPosts ==
    /\ used_filenames = {}
    /\ downloaded_images = {}
    /\ disk = {}
    /\ name_url = <<>>
    /\ calls = <<>>
    /\ IdleDownload
    /\ IdleExtract
    /\ fetch_pc = "loop"
    /\ page = 1
    /\ posts = <<>>
    /\ requested = <<>>
    /\ responses = <<>>

\* one turn of the while loop, lines 38-68
GetPage ==
    /\ fetch_pc = "loop"
    /\ page <= MaxPage
    /\ \E resp \in PageResponses(page) :
        /\ requested' = Append(requested, page)
        /\ responses' = Append(responses, resp)
        /\ IF resp.kind = "request_error"
           THEN /\ fetch_pc' = "returned"
                /\ UNCHANGED <<page, posts>>
           ELSE IF resp.posts = <<>>
           THEN /\ fetch_pc' = "returned"
                /\ UNCHANGED <<page, posts>>
           ELSE /\ posts' = posts \o resp.posts
                /\ IF last_page(page, total_pages(resp.total))
                   THEN fetch_pc' = "returned" /\ page' = page
                   ELSE fetch_pc' = "loop" /\ page' = page + 1
    /\ UNCHANGED <<fieldVars, nameVars, downloadVars, extractVars>>

NextPosts == GetPage

SpecPosts == InitPosts /\ [][NextPosts]_vars

\* the posts of the responses of a list, in order
RECURSIVE PostsOf(_)
PostsOf(rs) == IF rs = <<>> THEN <<>> ELSE Head(rs).posts \o PostsOf(Tail(rs))

\* the k-th request ends the pagination: an error, an empty page, or a page number
\* that has reached the total its own response advertises
EndsPagination(k) ==
    \/ responses[k].kind = "request_error"
    \/ responses[k].posts = <<>>
    \/ k >= total_pages(responses[k].total)

\* C7: the pages are requested as 1, 2, 3, ..., each once; the pagination stops at
\* the first request that meets an error, an empty page or a page number that has
\* reached the advertised total; the posts returned are those of the pages received
\* up to there, in page order, so an error on page p keeps the posts of 1..p-1.
C7_PagesInOrderUntilFirstStop ==
    /\ Len(responses) = Len(requested)
    /\ \A k \in 1..Len(requested) : requested[k] = k
    /\ \A k \in 1..(Len(requested) - 1) : ~EndsPagination(k)
    /\ posts = PostsOf(responses)
    /\ fetch_pc = "returned" => EndsPagination(Len(requested))
    /\ (fetch_pc = "loop" /\ requested /= <<>>) => ~EndsPagination(Len(requested))
    /\ fetch_pc = "loop" => page = Len(requested) + 1

\* two pages received, then an error on page 3: the posts of pages 1 and 2 are
\* returned
C7_Witness ==
    /\ fetch_pc = "returned"
    /\ Len(requested) = 3
    /\ responses[3].kind = "request_error"
    /\ Len(responses[1].posts) = 2
    /\ posts = responses[1].posts \o responses[2].posts
    /\ Len(posts) = 3

-----------------------------------------------------------------------------
(* extract_images_from_content, extract_block_images,                      *)
(* extract_shortcode_images, get_media_url_by_id                           *)
(*                                                                         *)
(* content_html is modelled by what the parser and the patterns find in    *)
(* it, in document order: an item per img tag (its src, <<>> when it has   *)
(* none), per block of a pattern of lines 133-137 (the matched url) and    *)
(* per shortcode of a pattern of lines 169-173 (the matched ids or src).   *)

\* urljoin(base, url) for a base without a path and a url without dot segments
urljoin(base, url) ==
    LET bscheme == Head(base)
        hasScheme == url /= <<>> /\ Head(url) \in SchemeTokens
        rest == IF hasScheme THEN Tail(url) ELSE url
        bnetloc == SubSeq(base, 2, Len(base))
    IN  IF hasScheme /\ (Head(url) /= bscheme \/ Head(url) = "data:") THEN url
        ELSE IF startswith(rest, <<"/", "/">>) THEN <<bscheme>> \o rest
        ELSE IF startswith(rest, <<"/">>) THEN <<bscheme>> \o bnetloc \o rest
        ELSE <<bscheme>> \o bnetloc \o <<"/">> \o rest

IsHttpUrl(url) ==
    startswith(url, <<"http:", "/", "/">>) \/ startswith(url, <<"https:", "/", "/">>)

\* lines 92-97, 146-151 and 198-203: the conversion to an absolute url
normalize(url) ==
    IF startswith(url, <<"/", "/">>) THEN <<"https:">> \o url
    ELSE IF startswith(url, <<"/">>) THEN urljoin(site_url, url)
    ELSE IF ~IsHttpUrl(url) THEN urljoin(site_url, url)
    ELSE url

\* line 143: match.replace('\\/', '/')
RECURSIVE unescape(_)
unescape(s) ==
    IF s = <<>> THEN <<>>
    ELSE IF startswith(s, <<"\\", "/">>) THEN <<"/">> \o unescape(SubSeq(s, 3, Len(s)))
    ELSE <<Head(s)>> \o unescape(Tail(s))

\* match.split(',')
RECURSIVE split_commas(_)
split_commas(s) ==
    LET c == FirstIndexIn(s, {","})
    IN  IF c > Len(s) THEN <<s>>
        ELSE <<SubSeq(s, 1, c - 1)>> \o split_commas(SubSeq(s, c + 1, Len(s)))

\* img_id.strip()
strip(s) ==
    LET solid == {i \in 1..Len(s) : s[i] /= " "}
    IN  IF solid = {} THEN <<>>
        ELSE SubSeq(s, CHOOSE i \in solid : \A k \in solid : i <= k,
                       CHOOSE i \in solid : \A k \in solid : k <= i)

\* img_id.isdigit()
isdigit(s) == s /= <<>> /\ \A i \in 1..Len(s) : isdigit_char(s[i])

\* the items of one kind, in document order: re.findall of one pattern
matches(items, kind) == SelectSeq(items, LAMBDA it : it.kind = kind)

\* the descriptors of lines 106-113, 153-160, 187-194 and 205-212
descriptor(url, img_class, img_id) ==
    [url |-> url, post_id |-> 1, img_class |-> img_class, img_id |-> img_id]

\* lines 86-115: the img tags
inline_images(items) ==
    LET tags == SelectSeq(items, LAMBDA it : it.kind = "img" /\ it.value /= <<>>)
    IN  [k \in 1..Len(tags) |-> descriptor(normalize(tags[k].value), "", <<>>)]

\* one pattern of extract_block_images, lines 140-160
block_pattern_images(items, kind) ==
    LET ms == matches(items, kind)
    IN  [k \in 1..Len(ms) |-> descriptor(normalize(unescape(ms[k].value)), "wp-block-image", <<>>)]

\* extract_block_images
extract_block_images(items) ==
    block_pattern_images(items, "wp:image") \o block_pattern_images(items, "wp:gallery")
        \o block_pattern_images(items, "wp:cover")

\* the stripped tokens of every gallery shortcode, in order: lines 176-182
RECURSIVE gallery_tokens(_)
gallery_tokens(ms) ==
    IF ms = <<>> THEN <<>>
    ELSE LET toks == split_commas(Head(ms).value)
         IN  [k \in 1..Len(toks) |-> strip(toks[k])] \o gallery_tokens(Tail(ms))

\* get_media_url_by_id(media_id), lines 216-224, given what its request meets:
\* <<>> stands for None and for an empty source_url, which line 186 treats alike
get_media_url_by_id(media_id, answer) ==
    IF answer.kind = "request_error" THEN <<>> ELSE answer.source_url

\* a gallery loop that a failed resolution ends
RECURSIVE gallery_images_stop_at_failure(_, _)
gallery_images_stop_at_failure(toks, answers) ==
    IF toks = <<>> THEN <<>>
    ELSE IF ~isdigit(Head(toks)) THEN gallery_images_stop_at_failure(Tail(toks), answers)
    ELSE IF get_media_url_by_id(Head(toks), Head(answers)) = <<>> THEN <<>>
    ELSE <<descriptor(get_media_url_by_id(Head(toks), Head(answers)),
                      "shortcode-image", Head(toks))>>
             \o gallery_images_stop_at_failure(Tail(toks), Tail(answers))

\* lines 181-194: the loop over the ids, each numeric one resolved by the next
\* request to the media endpoint
RECURSIVE gallery_images(_, _)
gallery_images(toks, answers) ==
    IF toks = <<>> THEN <<>>
    ELSE IF ~isdigit(Head(toks)) THEN gallery_images(Tail(toks), answers)
    ELSE IF get_media_url_by_id(Head(toks), Head(answers)) = <<>>
    THEN gallery_images(Tail(toks), Tail(answers))
    ELSE <<descriptor(get_media_url_by_id(Head(toks), Head(answers)),
                      "shortcode-image", Head(toks))>>
             \o gallery_images(Tail(toks), Tail(answers))

\* one direct-url pattern of extract_shortcode_images, lines 196-212
shortcode_pattern_images(items, kind) ==
    LET ms == matches(items, kind)
    IN  [k \in 1..Len(ms) |-> descriptor(normalize(ms[k].value), "shortcode-image", <<>>)]

\* extract_shortcode_images
extract_shortcode_images(items, answers) ==
    gallery_images(gallery_tokens(matches(items, "[gallery")), answers)
        \o shortcode_pattern_images(items, "[img")
        \o shortcode_pattern_images(items, "[image")

\* the media ids requested, in order
media_requests(items) == SelectSeq(gallery_tokens(matches(items, "[gallery")), isdigit)

\* extract_images_from_content, lines 73-125
extract_images_from_content(items, answers) ==
    IF items = <<>> THEN <<>>
    ELSE inline_images(items) \o extract_block_images(items)
             \o extract_shortcode_images(items, answers)

-----------------------------------------------------------------------------
(* Calls of extract_images_from_content                                    *)

MaxItems == 2
MaxIdsLen == 3

AbsHttps == <<"https:", "/", "/", "h", "/", "a", ".", "j">>
AbsHttp == <<"http:", "/", "/", "h", "/", "a", ".", "j">>
ProtocolRelative == <<"/", "/", "h", "/", "a", ".", "j">>
RootRelative == <<"/", "x", "/", "a", ".", "j">>
Relative == <<"a", ".", "j">>
DataUri == <<"data:", "i", "m", "a", "g", "e", "/", "p">>
Escaped == <<"https:", "\\", "/", "\\", "/", "h", "\\", "/", "a", ".", "j">>

SrcSamples == {AbsHttps, AbsHttp, ProtocolRelative, RootRelative, Relative, DataUri}

IdsSamples == {<<"1">>, <<"1", ",", "2">>}

IdsAlphabet == {"1", "2", ",", " ", "x"}

\* what a request to the media endpoint meets: it raises, or a JSON body arrives
\* whose source_url is absolute, root-relative, or absent
MediaResponses ==
    {[kind |-> "request_error", source_url |-> <<>>]}
    \cup [kind : {"response"}, source_url : {AbsHttps, RootRelative, <<>>}]

ContentItems ==
    [kind : {"img"}, value : SrcSamples \cup {<<>>}]
    \cup [kind : {"wp:image", "wp:gallery", "wp:cover"}, value : {Escaped, RootRelative}]
    \cup [kind : {"[img", "[image"}, value : {AbsHttp, ProtocolRelative, Relative}]
    \cup [kind : {"[gallery"}, value : IdsSamples]

GalleryItems == [kind : {"[gallery"}, value : Strings(IdsAlphabet, MaxIdsLen) \ {<<>>}]

InitExtractWith(contents) ==
    /\ used_filenames = {}
    /\ downloaded_images = {}
    /\ disk = {}
    /\ name_url = <<>>
    /\ calls = <<>>
    /\ IdleDownload
    /\ IdleFetch
    /\ extract_pc = "called"
    /\ content \in contents
    /\ media_answers \in [1..Len(media_requests(content)) -> MediaResponses]
    /\ media_log = <<>>
    /\ images = <<>>

\* extract_images_from_content(content_html, post_title, post_id)
ExtractImagesFromContent ==
    /\ extract_pc = "called"
    /\ images' = extract_images_from_content(content, media_answers)
    /\ media_log' = media_requests(content)
    /\ extract_pc' = "returned"
    /\ UNCHANGED <<fieldVars, nameVars, downloadVars, fetchVars, content, media_answers>>

InitExtract == InitExtractWith(Strings(ContentItems, MaxItems))

NextExtract == ExtractImagesFromContent

SpecExtract == InitExtract /\ [][NextExtract]_vars

InitGallery == InitExtractWith({<<g>> : g \in GalleryItems})

NextGallery == ExtractImagesFromContent

SpecGallery == InitGallery /\ [][NextGallery]_vars

-----------------------------------------------------------------------------
(* Claims about the extraction                                             *)

\* C5: every descriptor extract_images_from_content returns carries an absolute
\* http:// or https:// url, whichever pass produced it.
C5_AllUrlsAbsoluteHttp ==
    extract_pc = "returned" => \A k \in 1..Len(images) : IsHttpUrl(images[k].url)

\* the (img_id, url) pairs of the ids of a gallery whose request was answered with
\* a url, in the order of the ids
ResolvedIds ==
    LET ids == media_requests(content)
        pairs == [k \in 1..Len(ids) |->
                      [img_id |-> ids[k],
                       url |-> IF media_answers[k].kind = "response"
                               THEN media_answers[k].source_url ELSE <<>>]]
    IN  SelectSeq(pairs, LAMBDA d : d.url /= <<>>)

====
